---- MODULE Spec2Model ----
(***************************************************************************)
(* Model of gen_linux_template.py: the Proxmox VE template generator.      *)
(* One run of main() is a walk of pc from "main" to "exited"; the catalog  *)
(* document (templates.json), the image files of the working directory and *)
(* the hypervisor tool are the environment.                                *)
(***************************************************************************)
EXTENDS Integers, Sequences, FiniteSets, TLC

\* Number of image names that can appear in templates.json.  Names are the
\* integers 1..MaxImages, numbered in document order.
MaxImages == 2

Names == 1..MaxImages

\* args.image when --image was not given (argparse default None).
NoImage == 0

VARIABLES
    args,          \* parsed command line: [list, validate, all, image]
    doc,           \* templates.json as persisted: [kind, keys, bad]
    files,         \* image file of each name: absent, partial or complete
    sshKeyExists,  \* os.path.exists(config['ssh_keyfile'])
    pc,            \* position of the run
    validated,     \* result of validate_environment in this run
    images,        \* what process_all_images loaded and iterates: [kind, keys]
    todo,          \* names process_all_images has still to iterate
    cur,           \* image_name of the process_image call in progress
    step,          \* position inside create_template: 0 image check,
                   \* 1..13 the commands, 14 os.remove
    valIssued,     \* commands validate_environment issued in this run
    issued,        \* commands issued by the create_template call of the
                   \* process_image call in progress or just returned
    dl,            \* download_file call of that process_image call:
                   \* [file, before, after, result, transferred]
    ctRet,         \* return value of its create_template call
    log,           \* per-entry report lines of this run
    exitStatus,    \* status the process exits with (0 unless sys.exit(1) ran)
    raised,        \* the run ended by an exception nobody caught
    override,      \* the document --config names: [kind, map, items]
    config         \* what load_config returned: the generator's config

vars == <<args, doc, files, sshKeyExists, pc, validated, images, todo, cur,
          step, valIssued, issued, dl, ctRet, log, exitStatus, raised,
          override, config>>

----------------------------------------------------------------------------
(* The environment's data *)

RECURSIVE SortedSeq(_)
SortedSeq(S) ==
    IF S = {} THEN <<>>
    ELSE LET m == CHOOSE x \in S : \A y \in S : x <= y
         IN  <<m>> \o SortedSeq(S \ {m})

Range(s) == {s[i] : i \in 1..Len(s)}

ValuesOf(f) == {f[k] : k \in DOMAIN f}

\* The shapes templates.json can have: absent, not JSON, a JSON list of
\* names, or a JSON mapping keyed by names.  bad holds the keys of a mapping
\* whose record lacks the 'url' field; only the first name is ever given
\* such a record, and lists are [] and [1], to keep the set small.
Docs ==
    {[kind |-> k, keys |-> <<>>, bad |-> {}] : k \in {"missing", "invalid"}}
    \cup {[kind |-> "map", keys |-> SortedSeq(S), bad |-> S \cap B] :
              S \in SUBSET Names, B \in {{}, {1}}}
    \cup {[kind |-> "list", keys |-> SortedSeq(S), bad |-> {}] :
              S \in SUBSET {1}}

NoCatalog == [kind |-> "map", keys |-> <<>>, bad |-> {}]

NoImages == [kind |-> "map", keys |-> <<>>]

\* The record stored under a name of the catalog.
Entry(n) == [url |-> n, filename |-> n, vm_id |-> n, vm_name |-> n]

\* The command lines tried.  --all is tried without --image: with --all
\* the value of --image is never read (line 440 comes first).
ArgsSet ==
    {a \in [list : BOOLEAN, validate : BOOLEAN, all : BOOLEAN,
            image : {NoImage} \cup Names] : a.all => a.image = NoImage}

\* How the external command ended: exit status 0, non-zero exit status, or
\* the executable could not be found.
Outcomes == {"ok", "nonzero", "notfound"}

\* How urlretrieve ended: file written, failed before the file was opened,
\* or failed after part of the file was written.
TransferOutcomes == {"ok", "fail_nofile", "fail_partial"}

NoDownload == [file |-> NoImage, before |-> "absent", after |-> "absent",
               result |-> "none", transferred |-> FALSE]

----------------------------------------------------------------------------
(* Pure parts of the code *)

\* run_command: subprocess.run(command, check=check).
run_command(out, check) ==
    IF out = "notfound" THEN "FileNotFoundError"
    ELSE IF out = "nonzero" /\ check THEN "CalledProcessError"
    ELSE "returned"

\* get_available_images: what json.load gives, {} when the file is missing
\* or is not JSON.
get_available_images(d) ==
    IF d.kind \in {"missing", "invalid"} THEN NoCatalog ELSE d

\* The hypervisor commands of create_template, in program order.
Commands ==
    << "create", "net0", "serial_vga", "mem_cpu", "scsi0", "boot", "agent",
       "ide2", "ipconfig0", "sshkeys", "ciuser", "resize", "template" >>

SshStep == 10
CiuserStep == 11
ResizeStep == 12
TemplateStep == 13
RemoveStep == 14

\* The steps whose command is run with nothing around it but the try of
\* create_template: every command but sshkeys (guarded by the key file's
\* existence) and resize (its own try/except).
PlainSteps == (1..TemplateStep) \ {SshStep, ResizeStep}

\* How os.remove ended.
RemoveOutcomes == {"ok", "oserror"}

Cmd(c, vm, res) == [cmd |-> c, vm |-> vm, res |-> res]

\* The fields of the configuration, and a key that is none of them.
Fields == {"ssh_keyfile", "username", "storage"}

Keys == Fields \cup {"other"}

\* Lines 340-344.
default_config ==
    [ssh_keyfile |-> "/root/id_rsa.pub", username |-> "admin",
     storage |-> "local-zfs"]

\* Number of values an override document can hold besides the default ones.
MaxValue == 1

Values == ValuesOf(default_config) \cup {ToString(i) : i \in 1..MaxValue}

\* Longest JSON list tried as an override document.
MaxItems == 2

\* An element of a JSON list: a [key, value] pair, or something dict.update
\* cannot take as one.
NotPair == [pair |-> FALSE, key |-> "other", value |-> "admin"]

Items == [pair : {TRUE}, key : Keys, value : Values] \cup {NotPair}

\* The document --config names.  none: no --config; absent: the path does not
\* exist; unreadable: open fails; invalid: not JSON; scalar: a JSON number,
\* null or boolean; map: a JSON object; list: a JSON list.
NoOverride == [kind |-> "none", map |-> <<>>, items |-> <<>>]

OverrideDocs ==
    {[kind |-> k, map |-> <<>>, items |-> <<>>] :
        k \in {"none", "absent", "unreadable", "invalid", "scalar"}}
    \cup {[kind |-> "map", map |-> m, items |-> <<>>] :
             m \in UNION {[S -> Values] : S \in SUBSET Keys}}
    \cup {[kind |-> "list", map |-> <<>>, items |-> q] :
             q \in UNION {[1..n -> Items] : n \in 0..MaxItems}}

\* No configuration loaded yet.
NoConfig == <<>>

\* dict.update(m) for a mapping m.
UpdateMap(d, m) ==
    [k \in DOMAIN d \cup DOMAIN m |-> IF k \in DOMAIN m THEN m[k] ELSE d[k]]

\* dict.update(q) for a list q: the pairs are stored one after another, up
\* to the first element that is no pair, where update raises.
RECURSIVE UpdateItems(_, _)
UpdateItems(d, q) ==
    IF q = <<>> \/ ~Head(q).pair THEN d
    ELSE UpdateItems(UpdateMap(d, Head(q).key :> Head(q).value), Tail(q))

\* load_config (lines 330-354): default_config, updated in place with what
\* json.load gave; an exception of open, json.load or update is caught and
\* default_config returned as it is then.
load_config(o) ==
    CASE o.kind = "map" -> UpdateMap(default_config, o.map)
      [] o.kind = "list" -> UpdateItems(default_config, o.items)
      [] OTHER -> default_config

----------------------------------------------------------------------------
\* sys.argv not parsed yet.
NoArgs == [list |-> FALSE, validate |-> FALSE, all |-> FALSE, image |-> NoImage]

Init ==
    /\ args = NoArgs
    /\ doc \in Docs
    /\ files = [n \in Names |-> "absent"]
    /\ sshKeyExists = FALSE
    /\ pc = "start"
    /\ validated = "no"
    /\ images = NoImages
    /\ todo = <<>>
    /\ cur = NoImage
    /\ step = 0
    /\ valIssued = <<>>
    /\ issued = <<>>
    /\ dl = NoDownload
    /\ ctRet = "none"
    /\ log = <<>>
    /\ exitStatus = 0
    /\ raised = FALSE
    /\ override = NoOverride
    /\ config = NoConfig

----------------------------------------------------------------------------
(* Returns.  Each names the variables it sets; the action using it leaves  *)
(* the rest to its own UNCHANGED.                                          *)

\* sys.exit(code), or main returning (code 0).
Exit(code) ==
    /\ pc' = "exited"
    /\ exitStatus' = code
    /\ raised' = FALSE

\* An exception leaves main: traceback, exit status 1.
Crash ==
    /\ pc' = "exited"
    /\ exitStatus' = 1
    /\ raised' = TRUE

\* Mutant of ValidateReturn: main goes on to process images whatever
\* validate_environment returned.
ValidateReturn_Ignored(r) ==
    /\ validated' = IF r THEN "passed" ELSE "failed"
    /\ IF args.validate
       THEN Exit(IF r THEN 0 ELSE 1)
       ELSE pc' = "dispatch" /\ UNCHANGED <<exitStatus, raised>>

\* validate_environment returns r to main (lines 426-437).
ValidateReturn(r) ==
    /\ validated' = IF r THEN "passed" ELSE "failed"
    /\ IF args.validate
       THEN Exit(IF r THEN 0 ELSE 1)
       ELSE IF r
            THEN pc' = "dispatch" /\ UNCHANGED <<exitStatus, raised>>
            ELSE Exit(1)

\* process_image returns r: to process_all_images, which logs the entry's
\* outcome and goes on (lines 297-300), or to main, which exits 1 on False
\* (lines 443-444).
ProcessImageReturn(r, lg) ==
    IF args.all
    THEN /\ log' = Append(lg, [kind |-> IF r THEN "success" ELSE "failure",
                               name |-> cur, known |-> {}])
         /\ pc' = "all_loop"
         /\ UNCHANGED <<exitStatus, raised>>
    ELSE /\ Exit(IF r THEN 0 ELSE 1)
         /\ log' = lg

\* create_template returns r, and process_image returns it (line 283).
CreateTemplateReturn(r) ==
    /\ ctRet' = IF r THEN "True" ELSE "False"
    /\ ProcessImageReturn(r, log)

----------------------------------------------------------------------------
(* main *)

\* Lines 401-407: the command line is parsed and the generator constructed.
\* Whether the SSH key file exists is settled for the run here.
ParseArgs ==
    /\ pc = "start"
    /\ args' \in ArgsSet
    /\ sshKeyExists' \in BOOLEAN
    /\ config' = load_config(override)
    /\ pc' = "main"
    /\ UNCHANGED <<doc, files, validated, images, todo, cur, step, valIssued,
                   issued, dl, ctRet, log, exitStatus, raised, override>>

\* Lines 410-423: --list.
MainList ==
    /\ pc = "main"
    /\ args.list
    /\ LET imgs == get_available_images(doc) IN
       IF imgs.keys = <<>>
       THEN Exit(1) /\ UNCHANGED log
       ELSE IF imgs.kind = "list" \/ imgs.bad # {}
            THEN \* a list has no .items() (line 417); a record without
                 \* 'url' gives KeyError (line 421)
                 Crash /\ UNCHANGED log
            ELSE /\ Exit(0)
                 /\ log' = Append(log, [kind |-> "listing", name |-> NoImage,
                                        known |-> Range(imgs.keys)])
    /\ UNCHANGED <<valIssued, args, doc, files, sshKeyExists, validated,
                   images, todo, cur, step, issued, dl, ctRet>>
    /\ UNCHANGED <<override, config>>

\* Lines 426 and 435: main calls validate_environment.
MainValidate ==
    /\ pc = "main"
    /\ ~args.list
    /\ pc' = "val_qm"
    /\ UNCHANGED <<valIssued, args, doc, files, sshKeyExists, validated,
                   images, todo, cur, step, issued, dl, ctRet, log,
                   exitStatus, raised>>
    /\ UNCHANGED <<override, config>>

\* Lines 310-314: qm version, check=False.
ValidateQmVersion(out) ==
    /\ pc = "val_qm"
    /\ LET res == run_command(out, FALSE) IN
       /\ valIssued' = Append(valIssued, Cmd("qm_version", NoImage, res))
       /\ IF res = "FileNotFoundError"
          THEN ValidateReturn(FALSE)
          ELSE pc' = "val_pvesm" /\ UNCHANGED <<validated, exitStatus, raised>>
    /\ UNCHANGED <<args, doc, files, sshKeyExists, images, todo, cur, step,
                   issued, dl, ctRet, log>>
    /\ UNCHANGED <<override, config>>

\* Lines 321-327: pvesm status --storage <storage>.
ValidatePvesm(out) ==
    /\ pc = "val_pvesm"
    /\ LET res == run_command(out, TRUE) IN
       /\ valIssued' = Append(valIssued, Cmd("pvesm_status", NoImage, res))
       /\ CASE res = "returned" -> ValidateReturn(TRUE)
            [] res = "CalledProcessError" -> ValidateReturn(FALSE)
            [] OTHER -> Crash /\ UNCHANGED validated
    /\ UNCHANGED <<args, doc, files, sshKeyExists, images, todo, cur, step,
                   issued, dl, ctRet, log>>
    /\ UNCHANGED <<override, config>>

\* Lines 440-447: choose what to process.
MainDispatch ==
    /\ pc = "dispatch"
    /\ IF args.all
       THEN /\ pc' = "all_load"
            /\ UNCHANGED <<cur, exitStatus, raised>>
       ELSE IF args.image # NoImage
            THEN /\ pc' = "lookup"
                 /\ cur' = args.image
                 /\ UNCHANGED <<exitStatus, raised>>
            ELSE Exit(1) /\ UNCHANGED cur
    /\ UNCHANGED <<valIssued, args, doc, files, sshKeyExists, validated,
                   images, todo, step, issued, dl, ctRet, log>>
    /\ UNCHANGED <<override, config>>

----------------------------------------------------------------------------
(* process_all_images and process_image *)

\* Lines 291-293: the catalog process_all_images iterates.
ProcessAllLoad ==
    /\ pc = "all_load"
    /\ LET imgs == get_available_images(doc) IN
       /\ images' = [kind |-> imgs.kind, keys |-> imgs.keys]
       /\ todo' = imgs.keys
    /\ pc' = "all_loop"
    /\ UNCHANGED <<valIssued, args, doc, files, sshKeyExists, validated, cur,
                   step, issued, dl, ctRet, log, exitStatus, raised>>
    /\ UNCHANGED <<override, config>>

\* Lines 295-297: the next name of the iteration, or the end of it, after
\* which main returns.
ProcessAllNext ==
    /\ pc = "all_loop"
    /\ IF todo = <<>>
       THEN Exit(0) /\ UNCHANGED <<todo, cur, issued, dl, ctRet>>
       ELSE /\ cur' = Head(todo)
            /\ todo' = Tail(todo)
            /\ pc' = "lookup"
            /\ issued' = <<>>
            /\ dl' = NoDownload
            /\ ctRet' = "none"
            /\ UNCHANGED <<exitStatus, raised>>
    /\ UNCHANGED <<valIssued, args, doc, files, sshKeyExists, validated,
                   images, step, log>>
    /\ UNCHANGED <<override, config>>

\* Lines 269-276: process_image loads the catalog and looks the name up.
ProcessImageLookup ==
    /\ pc = "lookup"
    /\ LET imgs == get_available_images(doc) IN
       IF imgs.kind = "list"
       THEN \* a list has no .keys() (line 273) and no string index (line 276)
            Crash /\ UNCHANGED log
       ELSE IF cur \notin Range(imgs.keys)
            THEN ProcessImageReturn(FALSE,
                     Append(log, [kind |-> "unknown", name |-> cur,
                                  known |-> Range(imgs.keys)]))
            ELSE IF cur \in imgs.bad
                 THEN \* image_config['url'] gives KeyError (line 279)
                      Crash /\ UNCHANGED log
                 ELSE /\ pc' = "download"
                      /\ UNCHANGED <<log, exitStatus, raised>>
    /\ UNCHANGED <<valIssued, args, doc, files, sshKeyExists, validated,
                   images, todo, cur, step, issued, dl, ctRet>>
    /\ UNCHANGED <<override, config>>

\* Mutant of DownloadFile: no os.path.exists test, the file is always fetched.
DownloadFile_AlwaysFetch(t) ==
    /\ pc = "download"
    /\ LET f == Entry(cur).filename IN
       /\ files' = [files EXCEPT ![f] =
                       CASE t = "ok" -> "complete"
                         [] t = "fail_partial" -> "partial"
                         [] OTHER -> "absent"]
       /\ dl' = [file |-> f, before |-> files[f], after |-> files'[f],
                 result |-> IF t = "ok" THEN "True" ELSE "False",
                 transferred |-> TRUE]
       /\ IF t = "ok"
          THEN /\ pc' = "create_template"
               /\ step' = 0
               /\ UNCHANGED <<log, exitStatus, raised>>
          ELSE /\ ProcessImageReturn(FALSE, log)
               /\ UNCHANGED step
    /\ UNCHANGED <<valIssued, args, doc, sshKeyExists, validated, images,
                   todo, cur, issued, ctRet>>
    /\ UNCHANGED <<override, config>>

\* Mutant of DownloadFile: process_image goes on to create_template whatever
\* download_file returned.
DownloadFile_ResultIgnored(t) ==
    /\ pc = "download"
    /\ LET f == Entry(cur).filename IN
       IF files[f] # "absent"
       THEN /\ dl' = [file |-> f, before |-> files[f], after |-> files[f],
                      result |-> "True", transferred |-> FALSE]
            /\ UNCHANGED files
       ELSE /\ files' = [files EXCEPT ![f] =
                            CASE t = "ok" -> "complete"
                              [] t = "fail_partial" -> "partial"
                              [] OTHER -> "absent"]
            /\ dl' = [file |-> f, before |-> files[f], after |-> files'[f],
                      result |-> IF t = "ok" THEN "True" ELSE "False",
                      transferred |-> TRUE]
    /\ pc' = "create_template"
    /\ step' = 0
    /\ UNCHANGED <<valIssued, args, doc, sshKeyExists, validated, images,
                   todo, cur, issued, ctRet, log, exitStatus, raised>>
    /\ UNCHANGED <<override, config>>

\* Lines 88-109 and 279-280: download_file(url, filename).
DownloadFile(t) ==
    /\ pc = "download"
    /\ LET f == Entry(cur).filename IN
       IF files[f] # "absent"
       THEN /\ dl' = [file |-> f, before |-> files[f], after |-> files[f],
                      result |-> "True", transferred |-> FALSE]
            /\ pc' = "create_template"
            /\ step' = 0
            /\ UNCHANGED <<files, log, exitStatus, raised>>
       ELSE /\ files' = [files EXCEPT ![f] =
                            CASE t = "ok" -> "complete"
                              [] t = "fail_partial" -> "partial"
                              [] OTHER -> "absent"]
            /\ dl' = [file |-> f, before |-> files[f], after |-> files'[f],
                      result |-> IF t = "ok" THEN "True" ELSE "False",
                      transferred |-> TRUE]
            /\ IF t = "ok"
               THEN /\ pc' = "create_template"
                    /\ step' = 0
                    /\ UNCHANGED <<log, exitStatus, raised>>
               ELSE /\ ProcessImageReturn(FALSE, log)
                    /\ UNCHANGED step
    /\ UNCHANGED <<valIssued, args, doc, sshKeyExists, validated, images,
                   todo, cur, issued, ctRet>>
    /\ UNCHANGED <<override, config>>

----------------------------------------------------------------------------
(* create_template *)

\* run_command for the command of the current step, with result res.
Issue(res) ==
    issued' = Append(issued, Cmd(Commands[step], Entry(cur).vm_id, res))

\* The step's command returned: on to the next statement of the try block.
Proceed ==
    /\ step' = step + 1
    /\ UNCHANGED <<pc, ctRet, log, exitStatus, raised>>

\* An exception reached "except Exception" (lines 231-233).
Abort ==
    /\ CreateTemplateReturn(FALSE)
    /\ UNCHANGED step

\* Mutant of CreateTemplateCheck: no os.path.exists test, the commands follow.
CreateTemplateCheck_NoCheck ==
    /\ pc = "create_template"
    /\ step = 0
    /\ Proceed
    /\ UNCHANGED <<valIssued, args, doc, files, sshKeyExists, validated,
                   images, todo, cur, issued, dl>>
    /\ UNCHANGED <<override, config>>

\* Lines 126-129: the image file must exist.
CreateTemplateCheck ==
    /\ pc = "create_template"
    /\ step = 0
    /\ IF files[Entry(cur).filename] = "absent"
       THEN Abort
       ELSE Proceed
    /\ UNCHANGED <<valIssued, args, doc, files, sshKeyExists, validated,
                   images, todo, cur, issued, dl>>
    /\ UNCHANGED <<override, config>>

\* Mutant of CreateTemplateCommand: a failed command is followed by a
\* cleanup that deletes the image file.
CreateTemplateCommand_Cleanup(out) ==
    /\ pc = "create_template"
    /\ step \in PlainSteps
    /\ LET res == run_command(out, TRUE) IN
       /\ Issue(res)
       /\ IF res = "returned"
          THEN Proceed /\ UNCHANGED files
          ELSE /\ Abort
               /\ files' = [files EXCEPT ![Entry(cur).filename] = "absent"]
    /\ UNCHANGED <<valIssued, args, doc, sshKeyExists, validated, images,
                   todo, cur, dl>>
    /\ UNCHANGED <<override, config>>

\* Mutant of CreateTemplateCommand: the command's failure is not raised
\* (check=False), the next command follows.
CreateTemplateCommand_NoAbort(out) ==
    /\ pc = "create_template"
    /\ step \in PlainSteps
    /\ Issue(run_command(out, TRUE))
    /\ Proceed
    /\ UNCHANGED <<valIssued, args, doc, files, sshKeyExists, validated,
                   images, todo, cur, dl>>
    /\ UNCHANGED <<override, config>>

\* Lines 131-192, 203-207 and 218-222: qm create, the qm set commands, and
\* qm template.
CreateTemplateCommand(out) ==
    /\ pc = "create_template"
    /\ step \in PlainSteps
    /\ LET res == run_command(out, TRUE) IN
       /\ Issue(res)
       /\ IF res = "returned" THEN Proceed ELSE Abort
    /\ UNCHANGED <<valIssued, args, doc, files, sshKeyExists, validated,
                   images, todo, cur, dl>>
    /\ UNCHANGED <<override, config>>

\* Mutant of CreateTemplateSshKeys: no os.path.exists test around the
\* command.
CreateTemplateSshKeys_Unguarded(out) ==
    /\ pc = "create_template"
    /\ step = SshStep
    /\ LET res == run_command(out, TRUE) IN
       /\ Issue(res)
       /\ IF res = "returned" THEN Proceed ELSE Abort
    /\ UNCHANGED <<valIssued, args, doc, files, sshKeyExists, validated,
                   images, todo, cur, dl>>
    /\ UNCHANGED <<override, config>>

\* Lines 194-201: qm set --sshkeys, when the key file exists.
CreateTemplateSshKeys(out) ==
    /\ pc = "create_template"
    /\ step = SshStep
    /\ IF sshKeyExists
       THEN LET res == run_command(out, TRUE) IN
            /\ Issue(res)
            /\ IF res = "returned" THEN Proceed ELSE Abort
       ELSE /\ Proceed
            /\ UNCHANGED issued
    /\ UNCHANGED <<valIssued, args, doc, files, sshKeyExists, validated,
                   images, todo, cur, dl>>
    /\ UNCHANGED <<override, config>>

\* Mutant of CreateTemplateResize: no try/except around the command.
CreateTemplateResize_Propagates(out) ==
    /\ pc = "create_template"
    /\ step = ResizeStep
    /\ LET res == run_command(out, TRUE) IN
       /\ Issue(res)
       /\ IF res = "returned" THEN Proceed ELSE Abort
    /\ UNCHANGED <<valIssued, args, doc, files, sshKeyExists, validated,
                   images, todo, cur, dl>>
    /\ UNCHANGED <<override, config>>

\* Lines 209-216: qm disk resize, CalledProcessError caught on the spot.
CreateTemplateResize(out) ==
    /\ pc = "create_template"
    /\ step = ResizeStep
    /\ LET res == run_command(out, TRUE) IN
       /\ Issue(res)
       /\ IF res \in {"returned", "CalledProcessError"} THEN Proceed ELSE Abort
    /\ UNCHANGED <<valIssued, args, doc, files, sshKeyExists, validated,
                   images, todo, cur, dl>>
    /\ UNCHANGED <<override, config>>

\* Mutant of CreateTemplateRemove: the image file is kept.
CreateTemplateRemove_KeepsFile(rm) ==
    /\ pc = "create_template"
    /\ step = RemoveStep
    /\ CreateTemplateReturn(TRUE)
    /\ UNCHANGED <<valIssued, args, doc, files, sshKeyExists, validated,
                   images, todo, cur, step, issued, dl>>
    /\ UNCHANGED <<override, config>>

\* Lines 224-229: os.remove(image_file) inside the try block, then return True.
CreateTemplateRemove(rm) ==
    /\ pc = "create_template"
    /\ step = RemoveStep
    /\ LET f == Entry(cur).filename IN
       IF rm = "ok" /\ files[f] # "absent"
       THEN /\ files' = [files EXCEPT ![f] = "absent"]
            /\ CreateTemplateReturn(TRUE)
            /\ UNCHANGED step
       ELSE /\ Abort
            /\ UNCHANGED files
    /\ UNCHANGED <<valIssued, args, doc, sshKeyExists, validated, images,
                   todo, cur, issued, dl>>
    /\ UNCHANGED <<override, config>>

----------------------------------------------------------------------------
(* The environment, and the operator running the script again *)

\* templates.json is rewritten.  The script reads the document at three
\* places only (lines 411, 291, 269); a rewrite at any other moment shows no
\* earlier than one made just before the next of these reads.
CatalogChanged ==
    /\ \/ pc = "main" /\ args.list
       \/ pc \in {"all_load", "lookup"}
    /\ doc' \in Docs \ {doc}
    /\ UNCHANGED <<valIssued, args, files, sshKeyExists, pc, validated,
                   images, todo, cur, step, issued, dl, ctRet, log,
                   exitStatus, raised>>
    /\ UNCHANGED <<override, config>>

\* An image file is deleted from the working directory.  The script looks
\* at an image file at three places only (lines 92, 127, 226), and there at
\* the file of the entry it is processing; a deletion of any file at any
\* other moment shows no earlier than a deletion of that file just before.
ImageFileRemoved ==
    /\ \/ pc = "download"
       \/ pc = "create_template" /\ step \in {0, RemoveStep}
    /\ LET f == Entry(cur).filename IN
       /\ files[f] # "absent"
       /\ files' = [files EXCEPT ![f] = "absent"]
    /\ UNCHANGED <<valIssued, args, doc, sshKeyExists, pc, validated, images,
                   todo, cur, step, issued, dl, ctRet, log, exitStatus,
                   raised>>
    /\ UNCHANGED <<override, config>>

\* The script is started again in the same working directory.
Rerun ==
    /\ pc = "exited"
    /\ args' = NoArgs
    /\ sshKeyExists' = FALSE
    /\ pc' = "start"
    /\ validated' = "no"
    /\ images' = NoImages
    /\ todo' = <<>>
    /\ cur' = NoImage
    /\ step' = 0
    /\ valIssued' = <<>>
    /\ issued' = <<>>
    /\ dl' = NoDownload
    /\ ctRet' = "none"
    /\ log' = <<>>
    /\ exitStatus' = 0
    /\ raised' = FALSE
    /\ config' = NoConfig
    /\ UNCHANGED <<doc, files, override>>

Next ==
    \/ ParseArgs
    \/ MainList
    \/ MainValidate
    \/ \E out \in Outcomes : ValidateQmVersion(out)
    \/ \E out \in Outcomes : ValidatePvesm(out)
    \/ MainDispatch
    \/ ProcessAllLoad
    \/ ProcessAllNext
    \/ ProcessImageLookup
    \/ \E t \in TransferOutcomes : DownloadFile(t)
    \/ CreateTemplateCheck
    \/ \E out \in Outcomes : CreateTemplateCommand(out)
    \/ \E out \in Outcomes : CreateTemplateSshKeys(out)
    \/ \E out \in Outcomes : CreateTemplateResize(out)
    \/ \E rm \in RemoveOutcomes : CreateTemplateRemove(rm)
    \/ CatalogChanged
    \/ ImageFileRemoved
    \/ Rerun

Spec == Init /\ [][Next]_vars

\* The script started with --config naming any of the override documents.
InitConfig ==
    /\ args = NoArgs
    /\ doc = NoCatalog
    /\ files = [n \in Names |-> "absent"]
    /\ sshKeyExists = FALSE
    /\ pc = "start"
    /\ validated = "no"
    /\ images = NoImages
    /\ todo = <<>>
    /\ cur = NoImage
    /\ step = 0
    /\ valIssued = <<>>
    /\ issued = <<>>
    /\ dl = NoDownload
    /\ ctRet = "none"
    /\ log = <<>>
    /\ exitStatus = 0
    /\ raised = FALSE
    /\ override \in OverrideDocs
    /\ config = NoConfig

\* The start of main up to the generator's construction, load_config
\* included.
SpecConfig == InitConfig /\ [][ParseArgs]_vars

----------------------------------------------------------------------------
(* Vocabulary of the properties *)

CmdNames(seq) == [i \in 1..Len(seq) |-> seq[i].cmd]

IsPrefix(a, b) == Len(a) <= Len(b) /\ a = SubSeq(b, 1, Len(a))

NotSshKeys(c) == c # "sshkeys"

CommandsNoKey == SelectSeq(Commands, NotSshKeys)

IsResult(e) == e.kind \in {"success", "failure"}

\* The names process_all_images reported as processed, in order.
ResultNames == CmdNames([i \in 1..Len(SelectSeq(log, IsResult)) |->
                            [cmd |-> SelectSeq(log, IsResult)[i].name]])

\* The keys of the persisted catalog: those of the mapping, none when the
\* document is absent or is no mapping.
KeysOf(d) == IF d.kind = "map" THEN Range(d.keys) ELSE {}

----------------------------------------------------------------------------
(* C1 *)

\* C1: create_template issues its commands in the fixed order create, net0,
\* serial/vga, memory/cores/cpu, scsi0, boot/scsihw, agent, cloud-init drive,
\* ipconfig0, [sshkeys], ciuser, resize, template; and a command other than
\* sshkeys and resize that did not return normally is the last one issued,
\* with create_template having returned False.
C1_FixedOrderAbortOnFailure ==
    LET p == issued IN
    /\ \/ IsPrefix(CmdNames(p), Commands)
       \/ IsPrefix(CmdNames(p), CommandsNoKey)
    /\ \A i \in 1..Len(p) : p[i].vm = Entry(cur).vm_id
    /\ \A i \in 1..Len(p) :
          (p[i].cmd \notin {"sshkeys", "resize"} /\ p[i].res # "returned")
             => (i = Len(p) /\ ctRet = "False" /\ pc # "create_template")

\* The scsi0 import failed after four commands that succeeded.
C1_Witness ==
    /\ ctRet = "False"
    /\ Len(issued) = 5
    /\ issued[5].cmd = "scsi0"
    /\ issued[5].res = "CalledProcessError"

----------------------------------------------------------------------------
(* C2 *)

\* C2: a qm disk resize that exits non-zero (run_command's
\* CalledProcessError) does not end create_template: qm template is the next
\* command, about to be issued or issued.
C2_ResizeFailureNotFatal ==
    LET p == issued IN
    \A i \in 1..Len(p) :
       (p[i].cmd = "resize" /\ p[i].res = "CalledProcessError")
          => \/ i = Len(p) /\ pc = "create_template" /\ step = TemplateStep
             \/ i < Len(p) /\ p[i + 1].cmd = "template"

\* create_template returned True although the resize had failed.
C2_Witness ==
    /\ ctRet = "True"
    /\ \E i \in 1..Len(issued) :
          /\ issued[i].cmd = "resize"
          /\ issued[i].res = "CalledProcessError"
    /\ issued[Len(issued)].cmd = "template"

----------------------------------------------------------------------------
(* C3 *)

\* C3: a download_file call or a provisioning command happens only in a run
\* that is neither --list nor --validate and in which validate_environment
\* has returned True.
C3_ValidatedBeforeProvisioning ==
    (dl # NoDownload \/ issued # <<>> \/ pc \in {"download", "create_template"})
       => (validated = "passed" /\ ~args.list /\ ~args.validate)

\* A transfer was made and provisioning commands were issued, after a
\* validation that passed.
C3_Witness ==
    /\ validated = "passed"
    /\ dl.transferred
    /\ Len(issued) >= 2

----------------------------------------------------------------------------
(* C4 *)

\* C4: when a process_all_images run over a catalog of N entries has ended,
\* each of the N entries has been attempted and reported exactly once, as
\* a success or as a failure, in catalog order.
C4_AllEntriesReported ==
    (/\ pc = "exited"
     /\ args.all /\ ~args.list /\ ~args.validate
     /\ validated = "passed"
     /\ images.kind = "map")
       => ResultNames = images.keys

\* What the code does keep of C4: a run that no exception ended has
\* attempted and reported every entry it iterated.
C4_ReportedUnlessRaised ==
    (/\ pc = "exited"
     /\ args.all /\ ~args.list /\ ~args.validate
     /\ validated = "passed"
     /\ ~raised)
       => ResultNames = images.keys

----------------------------------------------------------------------------
(* C5 *)

\* C5: main exits with status zero only if every requested operation
\* succeeded: no entry was reported failed or unknown, validation did not
\* fail, no download and no create_template call returned False.
C5_ExitStatusDistinguishes ==
    (pc = "exited" /\ exitStatus = 0)
       => /\ \A i \in 1..Len(log) : log[i].kind \notin {"failure", "unknown"}
          /\ validated # "failed"
          /\ dl.result # "False"
          /\ ctRet # "False"

\* What the code does keep of C5: without --all, status zero means that
\* nothing failed.
C5_ExitStatusWithoutAll ==
    (pc = "exited" /\ exitStatus = 0 /\ ~args.all)
       => /\ \A i \in 1..Len(log) : log[i].kind \notin {"failure", "unknown"}
          /\ validated # "failed"
          /\ dl.result # "False"
          /\ ctRet # "False"

----------------------------------------------------------------------------
(* C6 *)

\* What process_image does with a name missing from what it loaded: cur is
\* the name, d the persisted document.
UnknownNameRejected(d) ==
    /\ ~raised'
    /\ dl' = NoDownload
    /\ issued' = <<>>
    /\ files' = files
    /\ \E i \in 1..Len(log') :
          /\ i > Len(log)
          /\ log'[i] = [kind |-> "unknown", name |-> cur, known |-> KeysOf(d)]
    /\ IF args.all
       THEN /\ pc' = "all_loop"
            /\ log'[Len(log')] =
                  [kind |-> "failure", name |-> cur, known |-> {}]
       ELSE pc' = "exited" /\ exitStatus' = 1

\* C6: process_image on a name that is not a key of the catalog returns
\* False (to process_all_images, which reports the failure, or to main, which
\* exits 1), with no download_file call and no command issued, and reports
\* the known names.
C6_UnknownNameRejected ==
    [][(pc = "lookup" /\ pc' # "lookup" /\ cur \notin KeysOf(doc))
          => UnknownNameRejected(doc)]_vars

\* What the code does keep of C6: the same, when the document is a mapping,
\* is absent or is not JSON.
C6_UnknownNameOfMapping ==
    [][(pc = "lookup" /\ pc' # "lookup" /\ cur \notin KeysOf(doc)
           /\ doc.kind # "list")
          => UnknownNameRejected(doc)]_vars

----------------------------------------------------------------------------
(* C7 *)

\* C7: no download_file call returns True without a transfer on a destination
\* that holds what a failed transfer left behind.
C7_NoLeftoverAccepted ==
    ~(dl.result = "True" /\ ~dl.transferred /\ dl.before = "partial")

----------------------------------------------------------------------------
(* C8 *)

\* C8: a download_file call that finds the destination existing makes no
\* transfer, leaves the file as it was and returns True.
C8_DownloadIdempotent ==
    (dl.result # "none" /\ dl.before # "absent")
       => (dl.result = "True" /\ ~dl.transferred /\ dl.after = dl.before)

\* download_file was called on a complete file left by an earlier run.
C8_Witness ==
    /\ dl.result = "True"
    /\ dl.before = "complete"
    /\ ~dl.transferred

----------------------------------------------------------------------------
(* C9 *)

\* C9: once qm template has succeeded, create_template returns True, also
\* when deleting the image file fails.
C9_RemoveFailureNonFatal ==
    LET p == issued IN
    (/\ ctRet # "none"
     /\ p # <<>>
     /\ p[Len(p)].cmd = "template"
     /\ p[Len(p)].res = "returned")
       => ctRet = "True"

----------------------------------------------------------------------------
(* C10 *)

\* The command was issued and create_template went past it.
Passed(c) ==
    \/ c.res = "returned"
    \/ c.cmd = "resize" /\ c.res = "CalledProcessError"

\* C10: without the SSH key file no sshkeys command is issued and
\* create_template goes from ipconfig0 on to ciuser, resize and template
\* without returning; with the key file, sshkeys is issued once, right after
\* ipconfig0 and right before ciuser.
C10_SshKeyStep ==
    LET p == issued
        n == Len(issued)
    IN
    /\ ~sshKeyExists =>
          /\ \A i \in 1..n : p[i].cmd # "sshkeys"
          /\ IsPrefix(CmdNames(p), CommandsNoKey)
          /\ (/\ n > 0
              /\ p[n].cmd \in {"ipconfig0", "ciuser", "resize"}
              /\ Passed(p[n]))
                => (pc = "create_template" /\ ctRet = "none")
    /\ sshKeyExists =>
          /\ IsPrefix(CmdNames(p), Commands)
          /\ (n > 0 /\ p[n].cmd = "ipconfig0" /\ Passed(p[n]))
                => (pc = "create_template" /\ step = SshStep)
          /\ (\E i \in 1..n : p[i].cmd = "ciuser")
                => Cardinality({i \in 1..n : p[i].cmd = "sshkeys"}) = 1

\* create_template returned True without the key file: twelve commands.
C10_Witness ==
    /\ ~sshKeyExists
    /\ ctRet = "True"
    /\ Len(issued) = 12
    /\ issued[10].cmd = "ciuser"

----------------------------------------------------------------------------
(* C11 *)

\* The validate_environment call of this run is over: its commands were
\* issued and control is no longer inside it.
ValidateEnded == valIssued # <<>> /\ pc # "val_pvesm"

\* The management tool could not be invoked, or the storage-status query
\* did not return normally.
ValidateFailure ==
    \/ valIssued[1].res = "FileNotFoundError"
    \/ Len(valIssued) = 2 /\ valIssued[2].res # "returned"

\* C11: a validate_environment call that is over has returned (it never
\* raises): False when qm is not invocable or the pvesm status query failed,
\* True otherwise, whether the SSH key file exists or not.
C11_ValidateNeverRaises ==
    ValidateEnded =>
       /\ validated # "no"
       /\ validated = "failed" <=> ValidateFailure
       /\ (~sshKeyExists /\ ~ValidateFailure) => validated = "passed"

\* What the code does keep of C11: the same, unless the pvesm executable
\* is not found.
C11_ValidateUnlessPvesmNotFound ==
    (/\ ValidateEnded
     /\ ~(Len(valIssued) = 2 /\ valIssued[2].res = "FileNotFoundError"))
       =>
       /\ validated # "no"
       /\ validated = "failed" <=> ValidateFailure
       /\ (~sshKeyExists /\ ~ValidateFailure) => validated = "passed"

----------------------------------------------------------------------------
(* C12 *)

\* One of the three callers of get_available_images reads the catalog and
\* acts on what it got: listing (line 411), process_all_images (line 291) or
\* process_image (line 269).
CatalogRead ==
    /\ \/ pc = "main" /\ args.list
       \/ pc \in {"all_load", "lookup"}
    /\ pc' # pc

\* The caller went on as with an empty mapping: the listing exits 1 with
\* nothing listed, process_all_images iterates nothing, process_image
\* reports the name as unknown among no known names; nothing is raised.
TreatedAsEmpty ==
    /\ ~raised'
    /\ pc = "main" => (pc' = "exited" /\ exitStatus' = 1 /\ log' = log)
    /\ pc = "all_load" => (images' = NoImages /\ todo' = <<>>)
    /\ pc = "lookup" =>
          /\ Len(log') > Len(log)
          /\ log'[Len(log) + 1] =
                [kind |-> "unknown", name |-> cur, known |-> {}]
          /\ pc' \in {"all_loop", "exited"}

\* C12: get_available_images on a catalog document that is absent, is not
\* JSON or is JSON with another top level than a mapping gives the empty
\* mapping, and each caller treats it as nothing available, raising nothing.
C12_MalformedCatalogIsEmpty ==
    [][(CatalogRead /\ doc.kind # "map")
          => (get_available_images(doc) = NoCatalog /\ TreatedAsEmpty)]_vars

\* What the code does keep of C12: the same for a document that is absent
\* or is not JSON.
C12_AbsentOrInvalidIsEmpty ==
    [][(CatalogRead /\ doc.kind \in {"missing", "invalid"})
          => (get_available_images(doc) = NoCatalog /\ TreatedAsEmpty)]_vars

----------------------------------------------------------------------------
(* C13 *)

\* load_config has returned.
ConfigLoaded == pc # "start"

\* The fields of config are the defaults, each replaced by the value the
\* mapping m holds for it, if any.
MergedOver(m) ==
    \A f \in Fields :
       config[f] = IF f \in DOMAIN m THEN m[f] ELSE default_config[f]

\* The override document could not be loaded: open, json.load or update
\* raised, and load_config printed its warning.
NotLoadable(o) ==
    \/ o.kind \in {"unreadable", "invalid", "scalar"}
    \/ o.kind = "list" /\ \E i \in 1..Len(o.items) : ~o.items[i].pair

\* C13: the configuration load_config returns holds, for each of
\* ssh_keyfile, username and storage, the override document's value where
\* the document has the field and the default elsewhere; it is exactly the
\* defaults when there is no override file or the file cannot be loaded.  A
\* JSON list consisting of pairs only is left to either reading.
C13_ConfigMerge ==
    ConfigLoaded =>
       /\ override.kind = "map" => MergedOver(override.map)
       /\ (override.kind \in {"none", "absent"} \/ NotLoadable(override))
             => config = default_config

\* What the code does keep of C13: the same, when the override document
\* is not a JSON list.
C13_ConfigMergeUnlessList ==
    (ConfigLoaded /\ override.kind # "list") =>
       /\ override.kind = "map" => MergedOver(override.map)
       /\ (override.kind \in {"none", "absent"} \/ NotLoadable(override))
             => config = default_config

----------------------------------------------------------------------------
(* C14 *)

\* C14: process_image goes lookup, download, build, each stage only after
\* the one before succeeded.  A download_file call is made only for a name
\* the lookup found; create_template is entered and commands are issued only
\* after download_file returned True; after download_file returned False
\* process_image has returned False with create_template never called.
C14_StagesInOrder ==
    /\ dl.result # "none" =>
          \A i \in 1..Len(log) :
             ~(log[i].kind = "unknown" /\ log[i].name = cur)
    /\ (pc = "create_template" \/ issued # <<>> \/ ctRet # "none")
          => dl.result = "True"
    /\ dl.result = "False" =>
          /\ issued = <<>>
          /\ ctRet = "none"
          /\ IF args.all
             THEN /\ pc \in {"all_loop", "exited"}
                  /\ log # <<>>
                  /\ log[Len(log)] =
                        [kind |-> "failure", name |-> cur, known |-> {}]
             ELSE pc = "exited" /\ exitStatus = 1

\* In a process_all_images run, a transfer failed and the entry was reported
\* failed with no command issued.
C14_Witness ==
    /\ args.all
    /\ dl.result = "False"
    /\ dl.transferred
    /\ pc = "all_loop"
    /\ issued = <<>>

----------------------------------------------------------------------------
(* C15 *)

\* C15: when create_template has returned True, the commands issued are the
\* whole fixed sequence (with sshkeys or without), each once; every one of
\* them but resize returned normally, qm template last; and the image file
\* is gone.
C15_TrueMeansAllDone ==
    LET p == issued IN
    ctRet = "True" =>
       /\ CmdNames(p) \in {Commands, CommandsNoKey}
       /\ \A i \in 1..Len(p) : p[i].cmd # "resize" => p[i].res = "returned"
       /\ \A c \in Range(Commands) \ {"sshkeys"} :
             Cardinality({i \in 1..Len(p) : p[i].cmd = c}) = 1
       /\ p[Len(p)].cmd = "template"
       /\ p[Len(p)].res = "returned"
       /\ \A i \in 1..Len(p) : p[i].vm = Entry(cur).vm_id
       /\ files[Entry(cur).filename] = "absent"

\* create_template returned True with the key file present: all thirteen
\* commands, and the image file deleted after a transfer in this call.
C15_Witness ==
    /\ ctRet = "True"
    /\ Len(issued) = 13
    /\ dl.after = "complete"
    /\ files[dl.file] = "absent"

----------------------------------------------------------------------------
(* C16 *)

\* create_template aborts on the command of the current step.
AbortOnCommand ==
    /\ pc = "create_template"
    /\ step \in 1..TemplateStep
    /\ ctRet' = "False"

\* C16: a create_template call that aborts on a failed command does nothing
\* besides: the failed command is the last one issued, after the commands
\* that succeeded, none of them qm template or anything but a command of the
\* fixed sequence; the image file stays as it was, and control has left
\* create_template.
C16_NoRollback ==
    [][AbortOnCommand =>
          /\ issued' = Append(issued, issued'[Len(issued')])
          /\ issued'[Len(issued')].cmd = Commands[step]
          /\ ~Passed(issued'[Len(issued')])
          /\ \A i \in 1..Len(issued) :
                Passed(issued[i]) /\ issued[i].cmd # "template"
          /\ IsPrefix(CmdNames(issued), Commands)
                \/ IsPrefix(CmdNames(issued), CommandsNoKey)
          /\ files' = files
          /\ pc' # "create_template"]_vars

\* create_template returned False on the failure of its third command or a
\* later one, and the image file is still there.
C16_Witness ==
    /\ ctRet = "False"
    /\ Len(issued) >= 3
    /\ ~Passed(issued[Len(issued)])
    /\ files[Entry(cur).filename] # "absent"

----------------------------------------------------------------------------
(* C17 *)

\* create_template starts with the image file missing.
StartsWithoutImage ==
    /\ pc = "create_template"
    /\ step = 0
    /\ files[Entry(cur).filename] = "absent"
    /\ <<pc, step>>' # <<pc, step>>

\* C17: create_template called when the image file does not exist returns
\* False and issues no command.
C17_NoImageNoCommand ==
    [][StartsWithoutImage =>
          /\ ctRet' = "False"
          /\ issued' = <<>>
          /\ pc' # "create_template"
          /\ files' = files]_vars

\* The file download_file had accepted was deleted before create_template
\* looked, and create_template returned False with nothing issued.
C17_Witness ==
    /\ dl.result = "True"
    /\ files[dl.file] = "absent"
    /\ ctRet = "False"
    /\ issued = <<>>

----------------------------------------------------------------------------
(* C18 *)

\* C18: in a process_all_images run, an entry that is iterated is looked up
\* in the catalog that was iterated: no iterated name is reported unknown,
\* and the catalog a process_image call finds is the one loaded by
\* process_all_images.
C18_CatalogLoadedOnce ==
    (args.all /\ images.kind = "map") =>
       \A i \in 1..Len(log) :
          log[i].kind = "unknown" => log[i].name \notin Range(images.keys)

\* What the code does keep of C18: an iterated name is found by the lookup
\* when the persisted document still holds it.
C18_FoundIfStillPersisted ==
    [][(pc = "lookup" /\ args.all /\ pc' # pc /\ cur \in KeysOf(doc))
          => (log' = log \/ log'[Len(log')].kind # "failure")]_vars

====
